---- MODULE Spec2Model ----
(***************************************************************************)
(* sar: the concurrent file-to-record pipeline of src/main.rs.             *)
(*                                                                         *)
(* main() starts one directory walker per configured directory on a pool   *)
(* of threads; every walker starts one task per directory entry; every     *)
(* task sends items on one shared mpsc channel (tx/rx).  SkimAdaptor::read *)
(* drains that channel on demand, hands every item out as one line of      *)
(* bytes and sends the item itself on a second channel (items_tx), from    *)
(* which main() recovers the selected item by its index.                   *)
(*                                                                         *)
(* Strings are sequences of byte values.  Under Spec and FairSpec the run   *)
(* is one without --encrypted: pass is None, and report_txt_file reads     *)
(* every text file as plain text.  FileSpec is one call of                 *)
(* vimdecrypt::decrypt (vimdecrypt/src/lib.rs), or one call of             *)
(* report_txt_file on one file with the password of the run, from its      *)
(* arguments to its return.                                                *)
(***************************************************************************)
EXTENDS Integers, Sequences, FiniteSets

\* ------------------------------------------------------------------ bounds
\* The most directory entries one run may hold.
MaxFiles == 2
\* The buffer sizes the reader may pass to read(): one too small for any
\* line, one larger than every line of the catalog.
SmallBuf == 1
LargeBuf == 16

\* ------------------------------------------------------- program constants
PoolSize == 10
LF == 10
CR == 13
Colon == 58
Dot == 46

BufSizes == {SmallBuf, LargeBuf}

\* The longest content of a file, the longest plaintext that is encrypted,
\* and the longest password, under FileSpec.
MaxText == 4
MaxPlain == 2
MaxPassword == 1

\* --------------------------------------------------------------- helpers
RECURSIVE Flatten(_)
Flatten(ss) == IF ss = <<>> THEN <<>> ELSE Head(ss) \o Flatten(Tail(ss))

RECURSIVE CountOf(_, _)
CountOf(s, b) ==
    IF s = <<>> THEN 0
    ELSE (IF Head(s) = b THEN 1 ELSE 0) + CountOf(Tail(s), b)

\* ------------------------------------------------- the directory catalog
\* The directory entries a run may meet.  err: WalkDir yields an error for
\* the entry; open_fails: fs::File::open fails; io_err_at = k > 0: the k-th
\* read of a line fails with an I/O error (nothing is consumed by it).
Catalog == <<
    [dir |-> 1, err |-> FALSE, path |-> <<97>>,
     content |-> <<>>, open_fails |-> FALSE, io_err_at |-> 0],
    [dir |-> 1, err |-> FALSE, path |-> <<98, 46, 109, 100>>,
     content |-> <<112, 10, 32, 10, 113>>, open_fails |-> FALSE, io_err_at |-> 0],
    [dir |-> 2, err |-> FALSE, path |-> <<99, 46, 116, 120, 116>>,
     content |-> <<255, 10, 114, 13, 10>>, open_fails |-> FALSE, io_err_at |-> 0],
    [dir |-> 2, err |-> FALSE, path |-> <<100, 10, 101>>,
     content |-> <<>>, open_fails |-> FALSE, io_err_at |-> 0],
    [dir |-> 1, err |-> FALSE, path |-> <<101, 46, 109, 100>>,
     content |-> <<117, 10>>, open_fails |-> TRUE, io_err_at |-> 0],
    [dir |-> 2, err |-> FALSE, path |-> <<102, 46, 109, 100>>,
     content |-> <<115, 10>>, open_fails |-> FALSE, io_err_at |-> 1],
    [dir |-> 2, err |-> TRUE, path |-> <<103>>,
     content |-> <<>>, open_fails |-> FALSE, io_err_at |-> 0]
>>

FileIds == 1..Len(Catalog)

\* configuration_file.reading_directories, in their order.
Dirs == {Catalog[f].dir : f \in FileIds}
NumDirs == Cardinality(Dirs)

\* ------------------------------------------------------------------ items
AnyFileItem(p) == [type |-> "AnyFileItem", path |-> p]

TextFileLineItem(p, l, i, k) ==
    [type |-> "TextFileLineItem", path |-> p, line |-> l, line_index |-> i,
     kind |-> k]

\* std::path::Display: the path's bytes, every byte that is not valid UTF-8
\* replaced by U+FFFD (EF BF BD).  Over this model's alphabet the bytes
\* below 128 are the valid ones.
PathDisplay(p) ==
    Flatten([i \in 1..Len(p) |->
                IF p[i] < 128 THEN <<p[i]>> ELSE <<239, 191, 189>>])

\* The decimal digits of a usize.
RECURSIVE Decimal(_)
Decimal(n) ==
    IF n < 10 THEN <<48 + n>> ELSE Decimal(n \div 10) \o <<48 + (n % 10)>>

\* item.to_string(): Display for AnyFileItem and for TextFileLineItem.
ToString(item) ==
    IF item.type = "AnyFileItem"
    THEN PathDisplay(item.path)
    ELSE PathDisplay(item.path) \o <<Colon>> \o Decimal(item.line_index + 1)
             \o <<Colon>> \o item.line

\* ------------------------------------------------------- BufRead::lines
IsUtf8(s) == \A i \in 1..Len(s) : s[i] < 128

\* One line of BufRead::lines, its line feed already cut off: a carriage
\* return before the line feed is cut off too; bytes that are no UTF-8 make
\* the line an Err.
LineResult(raw, terminated) ==
    IF ~IsUtf8(raw) THEN [ok |-> FALSE, line |-> <<>>]
    ELSE IF terminated /\ raw # <<>> /\ raw[Len(raw)] = CR
         THEN [ok |-> TRUE, line |-> SubSeq(raw, 1, Len(raw) - 1)]
         ELSE [ok |-> TRUE, line |-> raw]

RECURSIVE SplitLines(_, _, _)
SplitLines(s, i, cur) ==
    IF i > Len(s)
    THEN (IF cur = <<>> THEN <<>> ELSE <<LineResult(cur, FALSE)>>)
    ELSE IF s[i] = LF
         THEN <<LineResult(cur, TRUE)>> \o SplitLines(s, i + 1, <<>>)
         ELSE SplitLines(s, i + 1, Append(cur, s[i]))

Lines(content) == SplitLines(content, 1, <<>>)

\* What content.lines() yields for a file, call by call: its lines, and an
\* Err at the call whose read fails.
LinesOf(f) ==
    LET ls == Lines(Catalog[f].content)
        k == Catalog[f].io_err_at
    IN  IF k = 0 \/ k > Len(ls) + 1 THEN ls
        ELSE SubSeq(ls, 1, k - 1) \o <<[ok |-> FALSE, line |-> <<>>]>>
                 \o SubSeq(ls, k, Len(ls))

\* The same, once per file of the catalog.
FileLines == [f \in 1..Len(Catalog) |-> LinesOf(f)]

\* str::trim().is_empty()
IsWhitespace(b) == b \in {9, 10, 11, 12, 13, 32}
TrimIsEmpty(l) == \A i \in 1..Len(l) : IsWhitespace(l[i])

\* path.extension(): the bytes after the last dot of the file name, when
\* the name has a dot that is not its first byte.
HasDot(p) == \E i \in 2..Len(p) : p[i] = Dot
LastDot(p) == CHOOSE i \in 2..Len(p) : p[i] = Dot /\ \A j \in (i+1)..Len(p) : p[j] # Dot
Extension(p) == IF HasDot(p) THEN SubSeq(p, LastDot(p) + 1, Len(p)) ELSE <<>>
\* Some("md") | Some("txt")
IsTxt(p) == HasDot(p) /\ Extension(p) \in {<<109, 100>>, <<116, 120, 116>>}
TxtFiles == {f \in 1..Len(Catalog) : IsTxt(Catalog[f].path)}

\* ------------------------------------------------------ u32 arithmetic
\* A u32 is held as its two 16-bit halves, hi * 2^16 + lo, so that no value
\* of the model leaves the integers of the model checker.
Half == 65536

U32(hi, lo) == [hi |-> hi, lo |-> lo]
Zero32 == U32(0, 0)

\* byte as u32
FromU8(b) == U32(0, b)

\* ^, & and | on numbers below 2^16, bit by bit.
RECURSIVE BitXor(_, _)
BitXor(a, b) ==
    IF a = 0 THEN b
    ELSE IF b = 0 THEN a
    ELSE ((a + b) % 2) + 2 * BitXor(a \div 2, b \div 2)

RECURSIVE BitOr(_, _)
BitOr(a, b) ==
    IF a = 0 THEN b
    ELSE IF b = 0 THEN a
    ELSE (IF a % 2 = 1 \/ b % 2 = 1 THEN 1 ELSE 0)
             + 2 * BitOr(a \div 2, b \div 2)

Xor32(a, b) == U32(BitXor(a.hi, b.hi), BitXor(a.lo, b.lo))

\* a >> n, 0 <= n <= 32
Shr32(a, n) ==
    IF n >= 16 THEN U32(0, a.hi \div (2^(n - 16)))
    ELSE U32(a.hi \div (2^n),
             ((a.hi % (2^n)) * (2^(16 - n))) + (a.lo \div (2^n)))

\* a + b on u32: the sum modulo 2^32, and whether the sum left the u32.
Add32(a, b) ==
    LET lo == a.lo + b.lo
        hi == a.hi + b.hi + (lo \div Half)
    IN  [v |-> U32(hi % Half, lo % Half), overflow |-> hi >= Half]

\* The product of two numbers below 2^16, which is below 2^32.
Mul16(x, y) ==
    LET p1 == x * (y \div 256)
        p0 == x * (y % 256)
        mid == ((p1 % 256) * 256) + p0
    IN  U32((p1 \div 256) + (mid \div Half), mid % Half)

\* a * b on u32: the product modulo 2^32, and whether the product left the
\* u32.
Mul32(a, b) ==
    LET ll == Mul16(a.lo, b.lo)
        lh == Mul16(a.lo, b.hi)
        hl == Mul16(a.hi, b.lo)
        mid == lh.lo + hl.lo + ll.hi
    IN  [v |-> U32(mid % Half, ll.lo),
         overflow |-> \/ (a.hi # 0 /\ b.hi # 0)
                      \/ lh.hi # 0 \/ hl.hi # 0
                      \/ mid >= Half]

\* -------------------------------------------------------------- vimdecrypt
\* "VimCrypt~", and the three headers of 12 bytes.
Magic9 == <<86, 105, 109, 67, 114, 121, 112, 116, 126>>
HeaderZip == Magic9 \o <<48, 49, 33>>
HeaderBlowfish == Magic9 \o <<48, 50, 33>>
HeaderBlowfish2 == Magic9 \o <<48, 51, 33>>

\* CryptMethod::from_header, on a slice of 12 bytes: Ok(method), or the
\* error of bail!("Unknown VimCrypt header.").
FromHeader(h) ==
    IF h = HeaderZip THEN "Zip"
    ELSE IF h = HeaderBlowfish THEN "Blowfish"
    ELSE IF h = HeaderBlowfish2 THEN "Blowfish2"
    ELSE "Err"

\* calc_entry: n turns of its loop (it makes 8).
RECURSIVE CalcEntry(_, _, _)
CalcEntry(v, seed, n) ==
    IF n = 0 THEN v
    ELSE CalcEntry(Xor32(Shr32(v, 1), IF v.lo % 2 # 0 THEN seed ELSE Zero32),
                   seed, n - 1)

MakeCrcTable(seed) == [b \in 0..255 |-> CalcEntry(FromU8(b), seed, 8)]

\* make_crc_table(0xedb88320)
CrcTable == MakeCrcTable(U32(60856, 33568))

\* crc_table[((crc ^ (byte as u32)) & 0xff) as usize] ^ (crc >> 8)
Crc32(crc, byte) ==
    Xor32(CrcTable[BitXor(crc.lo % 256, byte)], Shr32(crc, 8))

\* [0x12345678u32, 0x23456789u32, 0x34567890u32]; keys[0] of the code is
\* keys[1] here.
InitialKeys == <<U32(4660, 22136), U32(9029, 26505), U32(13398, 30864)>>

\* 134775813 = 0x08088405
Multiplier == U32(2056, 33797)

\* update_keys(keys, byte): the keys after it in wrapping arithmetic, and
\* whether the sum, the product or the increment of keys[1] overflows the
\* u32.  (& 0xFFFFFFFF changes no u32.)
UpdateKeys(keys, byte) ==
    LET k0 == Crc32(keys[1], byte)
        sum == Add32(keys[2], U32(0, k0.lo % 256))
        prod == Mul32(sum.v, Multiplier)
        inc == Add32(prod.v, U32(0, 1))
        k1 == inc.v
        k2 == Crc32(keys[3], Shr32(k1, 24).lo % 256)
    IN  [keys |-> <<k0, k1, k2>>,
         overflow |-> sum.overflow \/ prod.overflow \/ inc.overflow]

\* let xor = (keys[2] | 2) & 0xFFFF; ((xor * (xor ^ 1)) >> 8) & 0xFF
KeyStreamByte(keys) ==
    LET xor == BitOr(keys[3].lo, 2)
        prod == Mul32(U32(0, xor), U32(0, BitXor(xor, 1)))
    IN  [byte |-> Shr32(prod.v, 8).lo % 256, overflow |-> prod.overflow]

\* c as u8, of a char of the password: the low 8 bits of its code point.
CharAsU8(c) == c % 256

\* file.read(&mut buf) into vec![0u8; 9]: the first 9 bytes of the file;
\* what a shorter file does not fill stays 0.
Read9(content) ==
    [i \in 1..9 |-> IF i <= Len(content) THEN content[i] ELSE 0]

VARIABLES
    present,    \* the catalog entries that exist in this run
    main,       \* main(): [pc, dir]
    senders,    \* the number of live clones of tx
    walk,       \* per directory: the walker job [pc, next]
    task,       \* per catalog entry: the per-file job [pc, pos]
    queue,      \* the items in flight on the shared channel (tx -> rx)
    sent,       \* history: every item sent on tx, with the task that sent it
    adaptor,    \* [job: the job that runs the selector, alive: the
                \*  SkimAdaptor (rx, items_tx, buffer) is not yet dropped]
    buffer,     \* SkimAdaptor.buffer
    mirror,     \* history: every item sent on items_tx
    mirrorRead, \* how many of them items_rx has received
    handed,     \* history: the byte strings read() has returned, in order
    reader,     \* the selector's reader: [pc, last]
    skim,       \* Skim::run_with: "none", "running", "accepted", "aborted"
    resolver,   \* items_rx.into_iter().nth(..): [pc, left, item]
    call,       \* FileSpec: the call under way and its arguments
    dec,        \* FileSpec: vimdecrypt::decrypt: [pc, keys, i, plain_text]
    rep         \* FileSpec: report_txt_file: [pc, kind, lines, pos]

vars == <<present, main, senders, walk, task, queue, sent, adaptor, buffer,
          mirror, mirrorRead, handed, reader, skim, resolver, call, dec, rep>>

fileVars == <<call, dec, rep>>

pipeVars == <<main, senders, walk, task, queue, sent>>
readVars == <<buffer, mirror, handed, reader>>

NoItem == [type |-> "None"]

\* ------------------------------------------------------------- channels
\* A channel that hands out the newest item first.
SendToFront(q, item) == <<item>> \o q
\* A receive that leaves the item in the channel.
Peeked(q) == q
\* A receive that takes an empty channel for a closed one (try_recv for
\* recv), and one that never sees the channel closed.
EmptyIsDisconnected == TRUE
NeverDisconnected == FALSE

\* mpsc: send appends, recv takes the oldest.
ChannelSend(q, item) == Append(q, item)

Received(q) == Head(q)
AfterRecv(q) == Tail(q)

\* recv() on an empty channel: Err once every Sender is dropped; until
\* then it blocks.
RecvDisconnected == senders = 0

\* A buffer that grows at its front (push_front for push_back).
PushFront(b, bytes) == <<bytes>> \o b
\* A buffer read at its back (back() for front()).
Back(b) == b[Len(b)]

\* A buffer emptied from its back (pop_back for pop_front).
PopBack(b) == SubSeq(b, 1, Len(b) - 1)

\* VecDeque::push_back / pop_front
PushBack(b, bytes) == Append(b, bytes)
Front(b) == Head(b)
PopFront(b) == Tail(b)

\* ------------------------------------------------------------ the pool
Busy ==
    Cardinality({d \in Dirs : walk[d].pc = "running"})
    + Cardinality({f \in FileIds : task[f].pc = "running"})
    + (IF adaptor.job = "running" THEN 1 ELSE 0)

\* A job runs once a thread of the pool has taken it.
CanRun(pc) == pc = "running" \/ (pc = "queued" /\ Busy < PoolSize)

RECURSIVE Ascending(_)
Ascending(S) ==
    IF S = {} THEN <<>>
    ELSE LET m == CHOOSE x \in S : \A y \in S : x <= y
         IN  <<m>> \o Ascending(S \ {m})

\* WalkDir::new(path): the entries of a directory, in the order of the walk.
DirEntries(d) == Ascending({f \in present : Catalog[f].dir = d})

\* No call of FileSpec is under way.
NoCall == [op |-> "none"]
DecNone == [pc |-> "none", keys |-> InitialKeys, i |-> 0, plain_text |-> <<>>]
RepNone == [pc |-> "none", kind |-> "None", lines |-> <<>>, pos |-> 0]

\* main() up to mpsc::channel(): no job is queued, nothing is sent.
PipelineStart ==
    /\ main = [pc |-> "dirs", dir |-> 1]
    /\ walk = [d \in Dirs |-> [pc |-> "unspawned", next |-> 1]]
    /\ task = [f \in FileIds |-> [pc |-> "absent", pos |-> 0]]
    /\ queue = <<>>
    /\ sent = <<>>
    /\ adaptor = [job |-> "unspawned", alive |-> TRUE]
    /\ buffer = <<>>
    /\ mirror = <<>>
    /\ mirrorRead = 0
    /\ handed = <<>>
    /\ reader = [pc |-> "none", last |-> -1]
    /\ skim = "none"
    /\ resolver = [pc |-> "none", index |-> 0, left |-> 0, item |-> NoItem]

Init ==
    /\ present \in {S \in SUBSET FileIds : Cardinality(S) <= MaxFiles}
    /\ senders = 1
    /\ PipelineStart
    /\ call = NoCall /\ dec = DecNone /\ rep = RepNone

\* ---------------------------------------------------------------- main
\* for dir in reading_directories { tx.clone(); scope.recurse(..) }
MainSpawnWalker ==
    /\ main.pc = "dirs" /\ main.dir <= NumDirs
    /\ senders' = senders + 1
    /\ walk' = [walk EXCEPT ![main.dir].pc = "queued"]
    /\ main' = [main EXCEPT !.dir = @ + 1]
    /\ UNCHANGED <<present, task, queue, sent, adaptor, mirrorRead, skim, resolver>>
    /\ UNCHANGED readVars
    /\ UNCHANGED fileVars

\* drop(tx)
MainDropTx ==
    /\ main.pc = "dirs" /\ main.dir > NumDirs
    /\ senders' = senders - 1
    /\ main' = [main EXCEPT !.pc = "adaptor"]
    /\ UNCHANGED <<present, walk, task, queue, sent, adaptor, mirrorRead, skim, resolver>>
    /\ UNCHANGED readVars
    /\ UNCHANGED fileVars

\* scope.execute(move || { .. Skim::run_with .. })
MainSpawnAdaptor ==
    /\ main.pc = "adaptor"
    /\ main' = [main EXCEPT !.pc = "join"]
    /\ adaptor' = [adaptor EXCEPT !.job = "queued"]
    /\ UNCHANGED <<present, senders, walk, task, queue, sent, mirrorRead, skim, resolver>>
    /\ UNCHANGED readVars
    /\ UNCHANGED fileVars

\* ---------------------------------------------------------- handle_dir
\* One turn of the loop over WalkDir: an entry that is an error is skipped,
\* any other gets a clone of tx and a job of its own.
WalkEntry(d) ==
    /\ CanRun(walk[d].pc)
    /\ walk[d].next <= Len(DirEntries(d))
    /\ LET f == DirEntries(d)[walk[d].next]
       IN  IF Catalog[f].err
           THEN UNCHANGED <<senders, task>>
           ELSE /\ senders' = senders + 1
                /\ task' = [task EXCEPT ![f].pc = "queued"]
    /\ walk' = [walk EXCEPT ![d] = [pc |-> "running", next |-> @.next + 1]]
    /\ UNCHANGED <<present, main, queue, sent, adaptor, mirrorRead, skim, resolver>>
    /\ UNCHANGED readVars
    /\ UNCHANGED fileVars

\* Ok(()): the walker's clone of tx is dropped.
WalkReturn(d) ==
    /\ CanRun(walk[d].pc)
    /\ walk[d].next > Len(DirEntries(d))
    /\ walk' = [walk EXCEPT ![d].pc = "done"]
    /\ senders' = senders - 1
    /\ UNCHANGED <<present, main, task, queue, sent, adaptor, mirrorRead, skim, resolver>>
    /\ UNCHANGED readVars
    /\ UNCHANGED fileVars

\* ------------------------------------------------------ per-file tasks
\* tx.send(item): fails once the Receiver is dropped.
SendOk == adaptor.alive

\* report_any_file(path, tx).unwrap()
TaskAnyFile(f) ==
    /\ f \notin TxtFiles
    /\ CanRun(task[f].pc)
    /\ IF SendOk
       THEN /\ queue' = ChannelSend(queue, AnyFileItem(Catalog[f].path))
            /\ sent' = Append(sent, [by |-> f, item |-> AnyFileItem(Catalog[f].path)])
            /\ task' = [task EXCEPT ![f].pc = "done"]
       ELSE /\ task' = [task EXCEPT ![f].pc = "failed"]
            /\ UNCHANGED <<queue, sent>>
    /\ senders' = senders - 1
    /\ UNCHANGED <<present, main, walk, adaptor, mirrorRead, skim, resolver>>
    /\ UNCHANGED readVars
    /\ UNCHANGED fileVars

\* A line index that counts from 1.
OneBased(pos) == pos

\* The line index enumerate() gives the pos-th result of lines().
LineIndex(pos) == pos - 1

\* if let Ok(line) = line { if line.trim().is_empty() { continue; } .. }
Reported(r) == r.ok /\ ~TrimIsEmpty(r.line)

\* The turn of the loop over content.lines().enumerate() that sends next,
\* from the pos-th on: the turns before it skip their line.  Past the last
\* line when no turn sends any more.
RECURSIVE NextSend(_, _)
NextSend(ls, pos) ==
    IF pos > Len(ls) \/ Reported(ls[pos]) THEN pos ELSE NextSend(ls, pos + 1)

\* report_txt_file(path, password, tx).unwrap(), up to its next send or its
\* return.  fs::File::open(&path)? comes first; then
\* report_txt_file_with_content: every tx.send(..)? of the loop, and Ok(())
\* after the last line.  However the task ends, its clone of tx is dropped.
TaskTxt(f) ==
    /\ f \in TxtFiles
    /\ CanRun(task[f].pc)
    /\ LET ls == FileLines[f]
           pos == NextSend(ls, IF task[f].pos = 0 THEN 1 ELSE task[f].pos)
           item == TextFileLineItem(Catalog[f].path, ls[pos].line,
                                    LineIndex(pos), "Plain")
       IN  IF task[f].pos = 0 /\ Catalog[f].open_fails
           THEN /\ task' = [task EXCEPT ![f].pc = "failed"]
                /\ senders' = senders - 1
                /\ UNCHANGED <<queue, sent>>
           ELSE IF pos > Len(ls)
           THEN /\ task' = [task EXCEPT ![f] = [pc |-> "done", pos |-> pos]]
                /\ senders' = senders - 1
                /\ UNCHANGED <<queue, sent>>
           ELSE IF SendOk
           THEN /\ queue' = ChannelSend(queue, item)
                /\ sent' = Append(sent, [by |-> f, item |-> item])
                /\ task' = [task EXCEPT ![f] = [pc |-> "running", pos |-> pos + 1]]
                /\ UNCHANGED senders
           ELSE /\ task' = [task EXCEPT ![f] = [pc |-> "failed", pos |-> pos]]
                /\ senders' = senders - 1
                /\ UNCHANGED <<queue, sent>>
    /\ UNCHANGED <<present, main, walk, adaptor, mirrorRead, skim, resolver>>
    /\ UNCHANGED readVars
    /\ UNCHANGED fileVars

\* ------------------------------------------------------ the selector job
\* The job of scope.execute starts: mpsc::channel() for the items,
\* SkimAdaptor { rx, items_tx, buffer: VecDeque::new() }, Skim::run_with.
AdaptorStart ==
    /\ adaptor.job = "queued" /\ Busy < PoolSize
    /\ adaptor' = [adaptor EXCEPT !.job = "running"]
    /\ skim' = "running"
    /\ reader' = [reader EXCEPT !.pc = "idle"]
    /\ UNCHANGED <<present, buffer, mirror, mirrorRead, handed, resolver>>
    /\ UNCHANGED pipeVars
    /\ UNCHANGED fileVars

\* items_rx lives in the job's closure.
ItemsRxAlive == adaptor.job = "running"

\* ------------------------------------------------- SkimAdaptor::read
\* self.buffer.push_back(item.to_string().into_bytes());
\* self.items_tx.send(item).unwrap();
\* The send fails, and the unwrap panics, once items_rx is dropped.
Drain ==
    /\ queue' = AfterRecv(queue)
    /\ buffer' = PushBack(buffer, ToString(Received(queue)))
    /\ IF ItemsRxAlive
       THEN /\ mirror' = ChannelSend(mirror, Received(queue))
            /\ reader' = [reader EXCEPT !.pc = "try"]
            /\ UNCHANGED adaptor
       ELSE /\ reader' = [reader EXCEPT !.pc = "panic_send"]
            /\ adaptor' = [adaptor EXCEPT !.alive = FALSE]
            /\ UNCHANGED mirror
    /\ UNCHANGED handed

\* assert!(len + 1 < buf.len());
FitsBuf(len, size) == len + 1 < size

\* buf[0..len].clone_from_slice(&mut item); buf[len] = b'\n';
WireLine(bytes) == bytes \o <<LF>>

\* The end of read(), which touches nothing but the adaptor and buf:
\* if self.buffer.is_empty() { return Ok(0); }
\* let mut item = self.buffer.pop_front().unwrap(); .. Ok(len + 1)
\* n is buf.len().
Return(n) ==
    /\ IF buffer = <<>>
       THEN /\ reader' = [reader EXCEPT !.pc = "idle", !.last = 0]
            /\ UNCHANGED <<buffer, handed, adaptor>>
       ELSE /\ buffer' = PopFront(buffer)
            /\ IF FitsBuf(Len(Front(buffer)), n)
               THEN /\ handed' = Append(handed, WireLine(Front(buffer)))
                    /\ reader' = [reader EXCEPT !.pc = "idle",
                                                !.last = Len(Front(buffer)) + 1]
                    /\ UNCHANGED adaptor
               ELSE /\ reader' = [reader EXCEPT !.pc = "panic_assert"]
                    /\ adaptor' = [adaptor EXCEPT !.alive = FALSE]
                    /\ UNCHANGED handed
    /\ UNCHANGED <<queue, mirror>>

\* The selector's reader calls read(buf), buf.len() = n.
\* if self.buffer.is_empty() { .. }: with lines left in the buffer the call
\* returns the next one; with none it goes on to rx.recv().
ReadCall(n) ==
    /\ adaptor.alive /\ reader.pc = "idle"
    /\ IF buffer = <<>>
       THEN /\ reader' = [reader EXCEPT !.pc = "recv"]
            /\ UNCHANGED <<queue, buffer, mirror, handed, adaptor>>
       ELSE Return(n)
    /\ UNCHANGED <<present, main, senders, walk, task, sent, mirrorRead, skim,
                   resolver>>
    /\ UNCHANGED fileVars

\* if let Ok(item) = self.rx.recv() { .. }: on Err the channel is empty for
\* good, try_recv() fails too and read() returns.
ReadRecv(n) ==
    /\ reader.pc = "recv"
    /\ IF queue # <<>> THEN Drain ELSE RecvDisconnected /\ Return(n)
    /\ UNCHANGED <<present, main, senders, walk, task, sent, mirrorRead, skim,
                   resolver>>
    /\ UNCHANGED fileVars

\* while let Ok(item) = self.rx.try_recv() { .. }: one turn; on Err the
\* loop ends and read() returns.
ReadTryRecv(n) ==
    /\ reader.pc = "try"
    /\ IF queue = <<>> THEN Return(n) ELSE Drain
    /\ UNCHANGED <<present, main, senders, walk, task, sent, mirrorRead, skim,
                   resolver>>
    /\ UNCHANGED fileVars

\* The selector's reader ends, at end of stream or once the selector has
\* returned, and drops the SkimAdaptor: rx and items_tx go with it.
ReaderStop ==
    /\ adaptor.alive /\ reader.pc = "idle"
    /\ reader.last = 0 \/ skim \in {"accepted", "aborted"}
    /\ reader' = [reader EXCEPT !.pc = "stopped"]
    /\ adaptor' = [adaptor EXCEPT !.alive = FALSE]
    /\ UNCHANGED <<present, buffer, mirror, mirrorRead, handed, skim, resolver>>
    /\ UNCHANGED pipeVars
    /\ UNCHANGED fileVars

\* --------------------------------------------------------- the selector
\* The lines the selector has been shown: the line feeds it has read.
LinesShown == CountOf(Flatten(handed), LF)

\* An iterator advanced one item too few (nth(i - 1) for nth(i)).
NthOffByOne(i) == i

\* Iterator::nth(i) takes i + 1 items off the iterator: it skips i and
\* returns the next.
NthTakes(i) == i + 1

\* Skim::run_with returns Some(output): selected_items.first() is the index
\* of one of the lines the selector was shown.
SkimAccept(i) ==
    /\ skim = "running"
    /\ i < LinesShown
    /\ skim' = "accepted"
    /\ resolver' = [pc |-> "nth", index |-> i, left |-> NthTakes(i), item |-> NoItem]
    /\ UNCHANGED <<present, adaptor, buffer, mirror, mirrorRead, handed, reader>>
    /\ UNCHANGED pipeVars
    /\ UNCHANGED fileVars

\* Skim::run_with returns None: the job returns.
SkimAbort ==
    /\ skim = "running"
    /\ skim' = "aborted"
    /\ adaptor' = [adaptor EXCEPT !.job = "ended"]
    /\ UNCHANGED <<present, buffer, mirror, mirrorRead, handed, reader, resolver>>
    /\ UNCHANGED pipeVars
    /\ UNCHANGED fileVars

\* The items_tx of the SkimAdaptor is the only Sender of the items.
ItemsDisconnected == mirrorRead = Len(mirror) /\ ~adaptor.alive

\* items_rx.into_iter().nth(first_selection).unwrap(): one recv() of the
\* iterator.  It blocks on an empty channel while items_tx lives; the
\* iterator ends, and unwrap panics on None, once items_tx is dropped.
\* With the selected item in hand the job ends: match exit_mode { .. }
\* .unwrap() acts on the item outside this program, and returns or panics.
ResolveRecv ==
    /\ resolver.pc = "nth"
    /\ IF mirrorRead < Len(mirror)
       THEN /\ mirrorRead' = mirrorRead + 1
            /\ IF resolver.left = 1
               THEN /\ resolver' = [resolver EXCEPT !.pc = "got", !.left = 0,
                                        !.item = mirror[mirrorRead + 1]]
                    /\ adaptor' = [adaptor EXCEPT !.job = "ended"]
               ELSE /\ resolver' = [resolver EXCEPT !.left = @ - 1]
                    /\ UNCHANGED adaptor
       ELSE /\ ItemsDisconnected
            /\ resolver' = [resolver EXCEPT !.pc = "panic_none"]
            /\ adaptor' = [adaptor EXCEPT !.job = "ended"]
            /\ UNCHANGED mirrorRead
    /\ UNCHANGED <<present, buffer, mirror, handed, reader, skim>>
    /\ UNCHANGED pipeVars
    /\ UNCHANGED fileVars

Next ==
    \/ MainSpawnWalker
    \/ MainDropTx
    \/ MainSpawnAdaptor
    \/ \E d \in Dirs : WalkEntry(d)
    \/ \E d \in Dirs : WalkReturn(d)
    \/ \E f \in present : TaskAnyFile(f)
    \/ \E f \in present : TaskTxt(f)
    \/ AdaptorStart
    \/ \E n \in BufSizes : ReadCall(n)
    \/ \E n \in BufSizes : ReadRecv(n)
    \/ \E n \in BufSizes : ReadTryRecv(n)
    \/ ReaderStop
    \/ \E i \in 0..(LinesShown - 1) : SkimAccept(i)
    \/ SkimAbort
    \/ ResolveRecv

Spec == Init /\ [][Next]_vars

\* The same program on a pool whose threads keep running: main() goes on,
\* every job a thread of the pool has taken or can take goes on, and the
\* selector's reader keeps calling read() and is woken when the channel
\* has an item for it or is closed.  Nothing is asked of the selector's
\* user: Skim::run_with may never return.
PoolFairness ==
    /\ WF_vars(MainSpawnWalker \/ MainDropTx \/ MainSpawnAdaptor)
    /\ \A d \in Dirs : WF_vars(WalkEntry(d) \/ WalkReturn(d))
    /\ \A f \in FileIds : WF_vars(TaskAnyFile(f) \/ TaskTxt(f))
    /\ WF_vars(AdaptorStart)
    /\ WF_vars(\E n \in BufSizes : ReadCall(n) \/ ReadRecv(n) \/ ReadTryRecv(n))

FairSpec == Spec /\ PoolFairness

\* ===================================================== one call, one file
\* The reference encryptor of the round-trip law: the forward direction of
\* zip_decrypt.  The password goes through the key schedule; every byte of
\* the plaintext is xored with the key stream and then fed, as plaintext,
\* to the key schedule; all of it in wrapping arithmetic.
RECURSIVE PasswordKeys(_, _)
PasswordKeys(keys, pw) ==
    IF pw = <<>> THEN keys
    ELSE PasswordKeys(UpdateKeys(keys, CharAsU8(Head(pw))).keys, Tail(pw))

RECURSIVE EncryptFrom(_, _)
EncryptFrom(keys, plain) ==
    IF plain = <<>> THEN <<>>
    ELSE <<BitXor(Head(plain), KeyStreamByte(keys).byte)>>
             \o EncryptFrom(UpdateKeys(keys, Head(plain)).keys, Tail(plain))

Encrypted(plain, pw) ==
    HeaderZip \o EncryptFrom(PasswordKeys(InitialKeys, pw), plain)

\* ------------------------------------------------------------ the inputs
SeqsUpTo(S, n) == UNION {[1..k -> S] : k \in 0..n}

\* The bytes of a text: line feed, carriage return, space, "x", and a byte
\* that is no UTF-8.  The chars of a password: "a", and U+0161, whose low
\* 8 bits are those of "a".
TextBytes == {LF, CR, 32, 120, 255}
PasswordChars == {97, 353}

Texts == SeqsUpTo(TextBytes, MaxText)
Plains == SeqsUpTo(TextBytes, MaxPlain)
Passwords == SeqsUpTo(PasswordChars, MaxPassword)

\* Data that is no VimCrypt file of method 01: nothing, less than a header,
\* an unknown header, the headers of the methods 02 and 03.
Malformed == {
    <<>>,
    Magic9,
    SubSeq(HeaderZip, 1, 11),
    Magic9 \o <<48, 52, 33, 120>>,
    <<120>> \o HeaderZip,
    HeaderBlowfish \o <<120, LF>>,
    HeaderBlowfish2 }

\* pass: &Option<String>
NoPass == [some |-> FALSE, pw |-> <<>>]
SomePass(pw) == [some |-> TRUE, pw |-> pw]
PassOptions == {NoPass} \cup {SomePass(pw) : pw \in Passwords}

\* checks: the build checks integer overflow (a debug build, or
\* overflow-checks = true) and panics on it; any other build wraps.
\* decrypt(data, password) on what the reference encryptor made of a
\* plaintext with that password, and on malformed data.
LawCalls ==
    {[op |-> "decrypt", data |-> Encrypted(pt, pw), pass |-> SomePass(pw),
      checks |-> c, law |-> TRUE, plain |-> pt] :
        pt \in Plains, pw \in Passwords, c \in BOOLEAN}

RawCalls ==
    {[op |-> "decrypt", data |-> d, pass |-> SomePass(pw),
      checks |-> c, law |-> FALSE, plain |-> <<>>] :
        d \in Malformed, pw \in Passwords, c \in BOOLEAN}

\* report_txt_file(path, password, tx) on a file that is a text, malformed
\* VimCrypt data, or a text encrypted with the password "a".
ReportCalls ==
    {[op |-> "report_txt_file", data |-> d, pass |-> ps,
      checks |-> c, law |-> FALSE, plain |-> <<>>] :
        d \in Texts \cup Malformed \cup {Encrypted(pt, <<97>>) : pt \in Plains},
        ps \in PassOptions, c \in BOOLEAN}

\* The path of the file of report_txt_file: "n.md".
NotePath == <<110, 46, 109, 100>>

\* The one Sender there is is the tx handed to report_txt_file; the
\* Receiver lives as long as the call.
FileInit ==
    /\ call \in LawCalls \cup RawCalls \cup ReportCalls
    /\ dec = IF call.op = "decrypt" THEN [DecNone EXCEPT !.pc = "header"]
             ELSE DecNone
    /\ rep = IF call.op = "report_txt_file" THEN [RepNone EXCEPT !.pc = "start"]
             ELSE RepNone
    /\ present = {}
    /\ senders = IF call.op = "report_txt_file" THEN 1 ELSE 0
    /\ PipelineStart

\* ------------------------------------------------------- vimdecrypt::decrypt
\* The password and the data decrypt is called with.
Password == call.pass.pw
\* &data[12..]
Body == SubSeq(call.data, 13, Len(call.data))

\* for c in password.chars() comes first, for b in data after it.
ZipLoop(i) == IF i <= Len(Password) THEN "password" ELSE "data"

\* let method = CryptMethod::from_header(&data[0..12])?; match method { .. }
\* &data[0..12] panics on data shorter than 12 bytes; the header of no
\* method is an Err; any method but Zip is unimplemented!(), a panic.
DecryptHeader ==
    /\ dec.pc = "header"
    /\ dec' = IF Len(call.data) < 12
              THEN [dec EXCEPT !.pc = "panic_slice"]
              ELSE LET method == FromHeader(SubSeq(call.data, 1, 12))
                   IN  IF method = "Err"
                       THEN [dec EXCEPT !.pc = "err_unknown_header"]
                       ELSE IF method = "Zip"
                       THEN [pc |-> ZipLoop(1), keys |-> InitialKeys, i |-> 1,
                             plain_text |-> <<>>]
                       ELSE [dec EXCEPT !.pc = "panic_unimplemented"]
    /\ UNCHANGED <<call, rep>>
    /\ UNCHANGED <<present, adaptor, mirrorRead, skim, resolver>>
    /\ UNCHANGED pipeVars /\ UNCHANGED readVars

\* update_keys(&mut keys, c as u8), for one char of the password.
ZipPassword ==
    /\ dec.pc = "password"
    /\ LET u == UpdateKeys(dec.keys, CharAsU8(Password[dec.i]))
       IN  dec' = IF call.checks /\ u.overflow
                  THEN [dec EXCEPT !.pc = "panic_overflow"]
                  ELSE [dec EXCEPT !.keys = u.keys,
                                   !.i = IF dec.i < Len(Password) THEN @ + 1 ELSE 1,
                                   !.pc = ZipLoop(dec.i + 1)]
    /\ UNCHANGED <<call, rep>>
    /\ UNCHANGED <<present, adaptor, mirrorRead, skim, resolver>>
    /\ UNCHANGED pipeVars /\ UNCHANGED readVars

\* One turn of for b in data: the key stream byte, b ^ (xor as u8),
\* plain_text.push(b), update_keys(&mut keys, b).
ZipByte ==
    /\ dec.pc = "data"
    /\ dec.i <= Len(Body)
    /\ LET xor == KeyStreamByte(dec.keys)
           b == BitXor(Body[dec.i], xor.byte)
           u == UpdateKeys(dec.keys, b)
       IN  dec' = IF call.checks /\ (xor.overflow \/ u.overflow)
                  THEN [dec EXCEPT !.pc = "panic_overflow"]
                  ELSE [dec EXCEPT !.keys = u.keys, !.i = @ + 1,
                                   !.plain_text = Append(@, b)]
    /\ UNCHANGED <<call, rep>>
    /\ UNCHANGED <<present, adaptor, mirrorRead, skim, resolver>>
    /\ UNCHANGED pipeVars /\ UNCHANGED readVars

\* Ok(plain_text), and decrypt's Ok(data)
ZipReturn ==
    /\ dec.pc = "data"
    /\ dec.i > Len(Body)
    /\ dec' = [dec EXCEPT !.pc = "ok"]
    /\ UNCHANGED <<call, rep>>
    /\ UNCHANGED <<present, adaptor, mirrorRead, skim, resolver>>
    /\ UNCHANGED pipeVars /\ UNCHANGED readVars

\* decrypt has returned or panicked.
DecryptEnded ==
    dec.pc \in {"ok", "err_unknown_header", "panic_slice",
                "panic_unimplemented", "panic_overflow"}

\* ---------------------------------------------------------- report_txt_file
\* if let Some(pw) = password { .. if buf == b"VimCrypt~" { .. } }: with a
\* password and "VimCrypt~" as the first 9 bytes, the whole file goes to
\* vimdecrypt::decrypt; any other file is read as it is, its kind Plain.
\* The file opens and is read without an I/O error.
ReportTxtFile ==
    /\ rep.pc = "start"
    /\ IF call.pass.some /\ Read9(call.data) = Magic9
       THEN /\ rep' = [rep EXCEPT !.pc = "decrypt"]
            /\ dec' = [dec EXCEPT !.pc = "header"]
       ELSE /\ rep' = [pc |-> "lines", kind |-> "Plain",
                       lines |-> Lines(call.data), pos |-> 1]
            /\ UNCHANGED dec
    /\ UNCHANGED call
    /\ UNCHANGED <<present, adaptor, mirrorRead, skim, resolver>>
    /\ UNCHANGED pipeVars /\ UNCHANGED readVars

\* let content = vimdecrypt::decrypt(&file_contents, pw)?; on Ok the
\* plaintext is what report_txt_file_with_content reads, its kind
\* VimEncrypted(pw); an Err is returned, and unwrapped by the job; a panic
\* of decrypt is the job's.  The tx of the call is dropped either way.
DecryptReturns ==
    /\ rep.pc = "decrypt"
    /\ DecryptEnded
    /\ IF dec.pc = "ok"
       THEN /\ rep' = [pc |-> "lines", kind |-> "VimEncrypted",
                       lines |-> Lines(dec.plain_text), pos |-> 1]
            /\ UNCHANGED senders
       ELSE /\ rep' = [rep EXCEPT !.pc = "failed"]
            /\ senders' = senders - 1
    /\ UNCHANGED <<call, dec>>
    /\ UNCHANGED <<present, main, walk, task, queue, sent>>
    /\ UNCHANGED <<adaptor, mirrorRead, skim, resolver>>
    /\ UNCHANGED readVars

\* TextFileLineItemKind::Plain, TextFileLineItemKind::VimEncrypted(pw)
VimEncrypted(pw) == <<"VimEncrypted", pw>>
Kind(tag) == IF tag = "Plain" THEN "Plain" ELSE VimEncrypted(Password)

\* report_txt_file_with_content, up to its next send or its return: the
\* turns of the loop that skip their line, then tx.send(..)?, or Ok(())
\* after the last line.
ReportLines ==
    /\ rep.pc = "lines"
    /\ LET pos == NextSend(rep.lines, rep.pos)
           item == TextFileLineItem(NotePath, rep.lines[pos].line,
                                    LineIndex(pos), Kind(rep.kind))
       IN  IF pos > Len(rep.lines)
           THEN /\ rep' = [rep EXCEPT !.pc = "done", !.pos = pos]
                /\ senders' = senders - 1
                /\ UNCHANGED <<queue, sent>>
           ELSE IF SendOk
           THEN /\ queue' = ChannelSend(queue, item)
                /\ sent' = Append(sent, [by |-> 0, item |-> item])
                /\ rep' = [rep EXCEPT !.pos = pos + 1]
                /\ UNCHANGED senders
           ELSE /\ rep' = [rep EXCEPT !.pc = "failed", !.pos = pos]
                /\ senders' = senders - 1
                /\ UNCHANGED <<queue, sent>>
    /\ UNCHANGED <<call, dec>>
    /\ UNCHANGED <<present, main, walk, task>>
    /\ UNCHANGED <<adaptor, mirrorRead, skim, resolver>>
    /\ UNCHANGED readVars

FileNext ==
    \/ DecryptHeader
    \/ ZipPassword
    \/ ZipByte
    \/ ZipReturn
    \/ ReportTxtFile
    \/ DecryptReturns
    \/ ReportLines

FileSpec == FileInit /\ [][FileNext]_vars

\* ------------------------------------------------------------ properties
\* The bytes the reader has been given, and the items sent on tx, in order.
Out == Flatten(handed)
SentItems == [i \in 1..Len(sent) |-> sent[i].item]
\* read() has returned 0.
Eof == reader.last = 0

\* C1: for every n below the number of lines read() has handed out, the
\* n-th item sent on items_tx is the item whose to_string(), with a line
\* feed after it, is the n-th line handed out.
C1_MirrorBacksHandedLines ==
    /\ Len(handed) <= Len(mirror)
    /\ \A n \in 1..Len(handed) : handed[n] = ToString(mirror[n]) \o <<LF>>

\* Two lines handed out whose items came from two different tasks.
C1_Witness ==
    /\ Len(handed) >= 2
    /\ sent[1].by # sent[2].by

\* C2: with one producer sending R1..RN and then closing the channel, the
\* bytes of all reads up to the first that returns 0 are to_string(R1), LF,
\* .., to_string(RN), LF; the i-th entry of the mirror is R(i), and so is
\* the item nth(i - 1) resolves to.
OneProducer == \A i, j \in 1..Len(sent) : sent[i].by = sent[j].by

C2_SingleProducerStream ==
    /\ (Eof /\ OneProducer) =>
          /\ Out = Flatten([i \in 1..Len(sent) |->
                               ToString(sent[i].item) \o <<LF>>])
          /\ mirror = SentItems
    /\ (resolver.pc = "got" /\ OneProducer) =>
          resolver.item = sent[resolver.index + 1].item

\* One task has sent two records, the reader has read to the end of the
\* stream and the second record was resolved.
C2_Witness ==
    /\ Eof /\ OneProducer /\ Len(sent) = 2
    /\ resolver.pc = "got" /\ resolver.index = 1

\* C3: resolving an index for which the mirror holds fewer than index + 1
\* entries ends with the error value IndexOutOfRange: no panic, and no
\* waiting without end for more entries.
C3_OutOfRangeIsAnErrorValue ==
    (/\ skim = "accepted"
     /\ resolver.pc # "nth"
     /\ Len(mirror) < resolver.index + 1)
        => resolver.pc = "index_out_of_range"

\* C4: once every Sender is dropped and neither the channel nor the buffer
\* holds anything, a call of read() does not block and returns 0, and so
\* does every later call: nothing is handed out, nothing is sent on
\* items_tx, and the channel and the buffer stay empty.
Drained == adaptor.alive /\ senders = 0 /\ queue = <<>> /\ buffer = <<>>

C4_EndOfStreamIsStable ==
    /\ [](Drained /\ reader.pc = "recv" => ENABLED (\E n \in BufSizes : ReadRecv(n)))
    /\ [][Drained =>
            /\ senders' = 0 /\ queue' = <<>> /\ buffer' = <<>>
            /\ UNCHANGED <<mirror, handed>>
            /\ reader'.pc \notin {"try", "panic_assert", "panic_send"}
            /\ (reader.pc = "recv" /\ reader' # reader)
                  => (reader'.pc = "idle" /\ reader'.last = 0)
            /\ (reader.last = 0 => reader'.last = 0)]_vars

\* Lines were handed out, then a read returned 0, and a later call of
\* read() is under way.
C4_Witness ==
    /\ Drained /\ Eof /\ reader.pc = "recv"
    /\ Len(handed) >= 2

\* C5: read() serves every buffer size from 1 byte on: no call fails for
\* the size of its buffer.
C5_AnyBufferSizeIsServed == reader.pc # "panic_assert"

\* C6: two records of one file are sent on tx, sent on items_tx and handed
\* out in the order of their lines.
SamePathInOrder(items) ==
    \A i, j \in 1..Len(items) :
        (/\ i < j
         /\ items[i].type = "TextFileLineItem"
         /\ items[j].type = "TextFileLineItem"
         /\ items[i].path = items[j].path)
            => items[i].line_index < items[j].line_index

C6_SameFileOrder ==
    /\ SamePathInOrder(SentItems)
    /\ SamePathInOrder(mirror)
    /\ LET ls == [i \in 1..Len(sent) |-> ToString(sent[i].item) \o <<LF>>]
       IN  \A a, b \in 1..Len(sent) :
              (a < b /\ sent[a].by = sent[b].by) =>
                  \A j \in 1..Len(handed) :
                      handed[j] = ls[b] => \E i \in 1..(j - 1) : handed[i] = ls[a]

\* Both records of one file were handed out, with a line of another file
\* between them.
C6_Witness ==
    /\ Len(handed) = 3
    /\ sent[1].by = sent[3].by /\ sent[1].by # sent[2].by

\* C7: every item sent on tx is either still in the channel or was drained
\* once, and has then one entry in the mirror (unless read() has died of a
\* failed items_tx.send, the items_rx being dropped); while the adaptor
\* lives every drained item has one line, in the buffer or handed out; once
\* a read has returned 0, the lines handed out are, as a multiset, the
\* lines of all items sent.
SentLines == [i \in 1..Len(sent) |-> ToString(sent[i].item) \o <<LF>>]
Occurrences(seq, x) == Cardinality({i \in 1..Len(seq) : seq[i] = x})

AllFinished ==
    /\ main.pc # "dirs"
    /\ \A d \in Dirs : walk[d].pc = "done"
    /\ \A f \in present : Catalog[f].err \/ task[f].pc \in {"done", "failed"}

C8_NoPrematureEndOfStream ==
    /\ Eof => (senders = 0 /\ queue = <<>> /\ AllFinished)
    /\ (reader.pc = "recv" /\ queue = <<>> /\ senders > 0)
          => ~ENABLED (\E n \in BufSizes : ReadRecv(n))

\* A read waits on the empty channel while a task that has sent one of its
\* two records still holds its Sender.
C8_Witness ==
    /\ reader.pc = "recv" /\ queue = <<>> /\ senders > 0
    /\ Len(handed) >= 1
    /\ \E f \in present : task[f].pc = "running"

\* C9: a task whose open or read of its file fails ends as a failed task
\* and sends nothing after the failure.
OpenFailed(f) == Catalog[f].open_fails
\* The turn of the loop at which the read failed, once the task is past it.
ReadFailedAt(f) ==
    IF /\ ~OpenFailed(f)
       /\ Catalog[f].io_err_at > 0
       /\ task[f].pos > Catalog[f].io_err_at
    THEN Catalog[f].io_err_at ELSE 0

C9_IoFailureFailsTheTask ==
    \A f \in present :
        /\ (OpenFailed(f) /\ task[f].pc \notin {"absent", "queued"})
              => task[f].pc = "failed"
        /\ ReadFailedAt(f) > 0 =>
              /\ task[f].pc = "failed"
              /\ \A i \in 1..Len(sent) :
                    sent[i].by = f =>
                        sent[i].item.line_index < LineIndex(ReadFailedAt(f))

\* C10: every line handed to the reader holds one line feed, its last
\* byte, so the selector has seen as many lines as read() has handed out.
C10_OneLineFeedPerWireLine ==
    /\ \A n \in 1..Len(handed) :
          /\ CountOf(handed[n], LF) = 1
          /\ handed[n][Len(handed[n])] = LF
    /\ LinesShown = Len(handed)

\* Skim::run_with has returned and the selector's reader has dropped the
\* SkimAdaptor.
SelectorGone == skim \in {"accepted", "aborted"} /\ reader.pc = "stopped"

\* C11: once the selector has returned and its reader is gone, a task that
\* was still outstanding runs to its end without failing: no task fails but
\* one that could not open its file.
C11_TasksOutliveTheSelector ==
    SelectorGone =>
        \A f \in present : task[f].pc = "failed" => OpenFailed(f)

\* One step of read(), as C18 wants it.
OneOldestLine ==
    /\ handed' # handed =>
          /\ buffer # <<>>
          /\ handed' = Append(handed, buffer[1] \o <<LF>>)
          /\ buffer' = Tail(buffer)
          /\ reader'.last = Len(buffer[1]) + 1
          /\ queue' = queue
    /\ (queue' # queue /\ Len(queue') < Len(queue)) =>
          /\ buffer' = Append(buffer, ToString(Head(queue)))
          /\ handed' = handed

\* C18: a read that hands anything out hands out the oldest line of the
\* buffer, whole and with one line feed after it, takes that line and no
\* other off the buffer and returns its length; a receive appends the
\* received item's line at the back of the buffer; and read() waits on
\* the channel with an empty buffer only.
C18_OneOldestLinePerRead ==
    /\ [](reader.pc = "recv" => buffer = <<>>)
    /\ [][OneOldestLine]_vars

\* Two lines were handed out and a third waits in the buffer: one read has
\* drained a batch of two items or more.
C18_Witness ==
    /\ Len(handed) = 2 /\ Len(buffer) = 1 /\ queue = <<>>
    /\ reader.pc = "idle" /\ adaptor.alive

\* C19: items_tx has sent at least as many items as read() has handed out
\* lines; so nth(i) for an index i below the number of lines handed out
\* finds its item without waiting for a send: it does not end on None, it
\* returns the item sent i-th (from 0) on items_tx, and it has taken i + 1
\* items off items_rx.
C19_ResolutionNeedsNoFurtherSend ==
    /\ Len(handed) <= Len(mirror)
    /\ (resolver.pc # "none" /\ resolver.index < Len(handed)) =>
          /\ resolver.pc # "panic_none"
          /\ resolver.pc = "nth" =>
                /\ mirrorRead < Len(mirror)
                /\ mirrorRead + resolver.left = resolver.index + 1
          /\ resolver.pc = "got" =>
                /\ resolver.item = mirror[resolver.index + 1]
                /\ mirrorRead = resolver.index + 1

\* The second of three items sent on items_tx was resolved: two items
\* were taken off items_rx, the third is left.
C19_Witness ==
    /\ resolver.pc = "got" /\ resolver.index = 1
    /\ Len(handed) >= 2 /\ Len(mirror) = 3 /\ mirrorRead = 2

\* The parts of C20.
TaskEnds(f) == task[f].pc = "queued" ~> task[f].pc \in {"done", "failed"}
SendersDropped == <>[](senders = 0)
NoTaskHeldUp ==
    [](\A f \in FileIds :
          task[f].pc = "queued" => ENABLED (TaskAnyFile(f) \/ TaskTxt(f)))
ReaderGetsEof == <>(Eof \/ skim \in {"accepted", "aborted"})

\* C20: on the pool of PoolSize threads no job waits for a thread for
\* ever: every task that was queued runs to its end, done or failed; every
\* Sender is dropped in the end; a task that is queued can be taken up
\* whatever the reader waits for; and the reader, as long as the selector
\* has not returned, gets to the end of the stream.
C20_PoolNeverDeadlocks ==
    /\ \A f \in FileIds : TaskEnds(f)
    /\ SendersDropped
    /\ NoTaskHeldUp
    /\ ReaderGetsEof

\* The part of C20 that is about the pool alone.
PoolServesEveryJob ==
    /\ \A f \in FileIds : TaskEnds(f)
    /\ SendersDropped
    /\ NoTaskHeldUp

\* ------------------------------------------------ properties of FileSpec
\* The data starts with the header of one of the three methods.
StartsWithHeader(d) ==
    /\ Len(d) >= 12
    /\ SubSeq(d, 1, 12) \in {HeaderZip, HeaderBlowfish, HeaderBlowfish2}

\* C12: decrypt, given the header of method 01 followed by what the
\* reference encryptor makes of a plaintext with a password, and given that
\* password, returns Ok with that plaintext.
C12_RoundTrip ==
    (call.op = "decrypt" /\ call.law /\ DecryptEnded) =>
        (dec.pc = "ok" /\ dec.plain_text = call.plain)

\* The same law for the builds that do not check integer overflow.
RoundTripWhenWrapping ==
    (call.op = "decrypt" /\ call.law /\ ~call.checks /\ DecryptEnded) =>
        (dec.pc = "ok" /\ dec.plain_text = call.plain)

\* C13: decrypt on data that starts with the header of method 02 or 03
\* ends with the error value for an unsupported method: it does not panic
\* and returns no plaintext.
C13_UnsupportedMethodIsAnError ==
    (/\ DecryptEnded
     /\ Len(call.data) >= 12
     /\ SubSeq(call.data, 1, 12) \in {HeaderBlowfish, HeaderBlowfish2})
        => dec.pc = "err_unsupported_method"

\* C14: decrypt on data that does not start with one of the three headers,
\* the empty data and data of less than 12 bytes included, ends with the
\* error value for an unknown header: it does not panic.
C14_NoHeaderIsAnError ==
    (DecryptEnded /\ ~StartsWithHeader(call.data))
        => dec.pc = "err_unknown_header"

\* C15: the arithmetic of the key schedule and of the key stream wraps at
\* 2^32: no sum and no product that leaves the u32 ends decrypt.
C15_OverflowWraps == dec.pc # "panic_overflow"

\* The content report_txt_file_with_content is to read: the file, or the
\* plaintext decrypt made of it.
Content == IF rep.kind = "Plain" THEN call.data ELSE dec.plain_text

C17_EncryptedIffHeader ==
    /\ rep.pc \notin {"none", "start"} =>
          (dec.pc # "none" <=> StartsWithHeader(call.data))
    /\ rep.pc \in {"lines", "done"} =>
          (rep.kind = "VimEncrypted" <=> StartsWithHeader(call.data))

====
